---- MODULE Spec2Model ----
(***************************************************************************)
(* Model of src/app.py: the accent-analysis pipeline of a Streamlit page.  *)
(* One session is one script run of main() (or one direct call of          *)
(* stream_audio_to_memory / analyze_accent); sessions share the temporary  *)
(* directory namespace of the host and the module-level client.            *)
(***************************************************************************)
EXTENDS Naturals, Sequences, FiniteSets

\* ------------------------------------------------------------------ bounds
MaxUrlLen == 2
NumTempNames == 2
MaxFiles == 1

\* --------------------------------------------------------- program constants
SAMPLE_RATE == 16000
CHANNELS == 1

\* ------------------------------------------------------------ python values
\* A python value is a record [t, v]: its type name and its payload.
PyNone == [t |-> "NoneType", v |-> <<>>]
PyStr(chars) == [t |-> "str", v |-> chars]

UrlChars == {" ", "x"}
Whitespace == {" "}

CharSeqs == UNION {[1..n -> UrlChars] : n \in 0..MaxUrlLen}

\* what st.text_input can hand to main: any string
FormUrls == {PyStr(c) : c \in CharSeqs}
\* what a direct caller can pass
ArgUrls == FormUrls \cup {PyNone}

\* bool(x) of a string or None
Truthy(x) == x.t = "str" /\ Len(x.v) > 0

RECURSIVE LStrip(_)
LStrip(cs) ==
  IF cs # <<>> /\ Head(cs) \in Whitespace THEN LStrip(Tail(cs)) ELSE cs

RECURSIVE RStrip(_)
RStrip(cs) ==
  IF cs # <<>> /\ cs[Len(cs)] \in Whitespace
  THEN RStrip(SubSeq(cs, 1, Len(cs) - 1))
  ELSE cs

\* str.strip()
Strip(x) == PyStr(RStrip(LStrip(x.v)))

\* --------------------------------------------------------------- exceptions
\* An exception is its class and its message; the message is the sequence of
\* its parts, outermost first: f"prefix: {str(e)}" is <<prefix>> \o e.msg.
NoExc == [type |-> "None", msg |-> <<>>]
Exc(type, msg) == [type |-> type, msg |-> msg]
IsExc(e) == e.type # "None"

DecoderMsg == "Decoding failed"
DownloaderMsg == "ERROR: Unsupported URL"
OtherMsg == "boom"

\* ---------------------------------------------------------------- the audio
\* The bytes of an audio file or buffer, by what a decoder finds in them.
\* by: the session whose download wrote them.
NoBytes == [container |-> "none", channels |-> 0, rate |-> 0, nbytes |-> 0, by |-> 0]
NoBuffer == [container |-> "none", channels |-> 0, rate |-> 0, nbytes |-> 0, by |-> 0, pos |-> 0]

\* What the downloader and its FFmpegExtractAudio postprocessor (lines 56-66:
\* preferredcodec wav, no resampling, no downmix) can leave in the output
\* directory: a name (split at its dots) and the data. An extracted WAV keeps
\* the source's channels and sample rate.
Produced ==
  { [name |-> <<"audio", "wav">>,  container |-> "wav",  channels |-> CHANNELS, rate |-> SAMPLE_RATE, nbytes |-> 2],
    [name |-> <<"audio", "wav">>,  container |-> "wav",  channels |-> 2, rate |-> 44100, nbytes |-> 2],
    [name |-> <<"audio", "WAV">>,  container |-> "wav",  channels |-> CHANNELS, rate |-> SAMPLE_RATE, nbytes |-> 2],
    [name |-> <<"audio", "wav">>,  container |-> "wav",  channels |-> CHANNELS, rate |-> SAMPLE_RATE, nbytes |-> 0],
    [name |-> <<"audio", "webm">>, container |-> "webm", channels |-> 2, rate |-> 44100, nbytes |-> 2],
    [name |-> <<"audio", "webm">>, container |-> "corrupt", channels |-> 0, rate |-> 0, nbytes |-> 1],
    [name |-> <<"audio", "webm", "part">>, container |-> "corrupt", channels |-> 0, rate |-> 0, nbytes |-> 1],
    [name |-> <<"thumb", "jpg">>,  container |-> "jpg",  channels |-> 0, rate |-> 0, nbytes |-> 1] }

\* The sets of files one download can leave behind: at most MaxFiles files,
\* no two with the same name.
Downloads ==
  { ds \in SUBSET Produced :
      /\ Cardinality(ds) <= MaxFiles
      /\ \A f, g \in ds : f.name = g.name => f = g }

FileOf(p, s) ==
  [name |-> p.name, container |-> p.container, channels |-> p.channels,
   rate |-> p.rate, nbytes |-> p.nbytes, by |-> s]

DataOf(f) ==
  [container |-> f.container, channels |-> f.channels, rate |-> f.rate,
   nbytes |-> f.nbytes, by |-> f.by]

\* f.startswith('audio.')
StartsWithAudioDot(name) == Len(name) >= 2 /\ name[1] = "audio"

\* str.lower() of one dot-separated part of a file name
Lower(part) == IF part = "WAV" THEN "wav" ELSE part

\* audio_file.split('.')[-1].lower()
Ext(name) == Lower(name[Len(name)])

\* io.BytesIO(data): a buffer over the data, positioned at its start
BytesIO(data) ==
  [container |-> data.container, channels |-> data.channels, rate |-> data.rate,
   nbytes |-> data.nbytes, by |-> data.by, pos |-> 0]

\* buffer.seek(0)
Seek0(buf) == [buf EXCEPT !.pos = 0]

\* AudioSegment.from_file(..., format=input_format) decodes the data iff it is
\* non-empty data of that format.
Decodable(data, input_format) ==
  data.nbytes > 0 /\ data.container = input_format

\* audio.export(temp_buffer, format=output_format): the write leaves the
\* buffer positioned at its end.
Export(data, output_format) ==
  [container |-> output_format, channels |-> CHANNELS, rate |-> SAMPLE_RATE,
   nbytes |-> data.nbytes, by |-> data.by, pos |-> data.nbytes]

\* convert_audio_format(audio_data, input_format, output_format):
\* [exc, value, calls]: exc = NoExc on return; calls are the calls made, the
\* texts the collaborator answered and the exceptions raised, in order.
ConvertAudioFormat(audio_data, input_format, output_format) ==
  IF Decodable(audio_data, input_format)
  THEN [exc |-> NoExc, value |-> Seek0(Export(audio_data, output_format)),
        calls |-> <<"convert_audio_format">>]
  ELSE [exc |-> Exc("RuntimeError", <<"Audio conversion failed", DecoderMsg>>),
        value |-> NoBuffer,
        calls |-> <<"convert_audio_format", "raise CouldntDecodeError">>]

\* the except clauses of stream_audio_to_memory
SaHandler(e) ==
  IF e.type = "DownloadError"
  THEN Exc("RuntimeError", <<"Failed to extract audio">> \o e.msg)
  ELSE Exc("RuntimeError", <<"An unexpected error occurred">> \o e.msg)

\* mutant: the guard without the strip
UrlRejected_NoStrip(video_url) == ~Truthy(video_url)

\* the guard of stream_audio_to_memory: not video_url or not video_url.strip()
UrlRejected(video_url) == ~Truthy(video_url) \/ ~Truthy(Strip(video_url))

\* ------------------------------------------------------------------- texts
\* A transcript or report: [t, v] with v a string.
TextNone == [t |-> "NoneType", v |-> ""]
Text(str) == [t |-> "str", v |-> str]
TruthyText(x) == (x.t = "str" /\ x.v # "") \/ (x.t = "int" /\ x.v # "0")

\* what recognize_google can return
Transcripts == {Text("hello world"), Text("")}
\* what a direct caller can pass to analyze_accent
ArgTexts == Transcripts \cup {TextNone, [t |-> "int", v |-> "7"]}
\* what a completion's first choice can hold
Reports == {Text("### Accent: American"), Text("### Accent: British")}

\* The recognition service's answers to one recognize_google call.
RecognitionOutcomes ==
  {[o |-> "text", text |-> t] : t \in Transcripts}
    \cup {[o |-> k, text |-> TextNone] : k \in {"UnknownValueError", "RequestError", "Exception"}}

\* mutant: "could not understand" returned as if it were the transcript
TranscribeAudio_Sentinel(audio_data, outcome) ==
  IF outcome.o = "text"
  THEN [exc |-> NoExc, value |-> outcome.text,
        calls |-> <<"transcribe_audio", "recognize_google", outcome.text.v>>]
  ELSE [exc |-> NoExc, value |-> Text("Speech recognition could not understand audio"),
        calls |-> <<"transcribe_audio", "recognize_google",
                    CASE outcome.o = "UnknownValueError" -> "raise UnknownValueError"
                      [] outcome.o = "RequestError" -> "raise RequestError"
                      [] OTHER -> "raise Exception">>]

\* transcribe_audio(audio_data) when the service answers `outcome`:
\* [exc, value, calls].
TranscribeAudio(audio_data, outcome) ==
  IF audio_data.container # "wav" \/ audio_data.nbytes = 0
  THEN \* sr.AudioFile cannot read the data: the catch-all clause
       [exc |-> Exc("RuntimeError", <<"Error during transcription", OtherMsg>>),
        value |-> TextNone,
        calls |-> <<"transcribe_audio", "raise Exception">>]
  ELSE CASE outcome.o = "text" ->
              [exc |-> NoExc, value |-> outcome.text,
               calls |-> <<"transcribe_audio", "recognize_google", outcome.text.v>>]
         [] outcome.o = "UnknownValueError" ->
              [exc |-> Exc("RuntimeError", <<"Speech recognition could not understand audio">>),
               value |-> TextNone,
               calls |-> <<"transcribe_audio", "recognize_google", "raise UnknownValueError">>]
         [] outcome.o = "RequestError" ->
              [exc |-> Exc("RuntimeError",
                           <<"Could not request results from speech recognition service", OtherMsg>>),
               value |-> TextNone,
               calls |-> <<"transcribe_audio", "recognize_google", "raise RequestError">>]
         [] OTHER ->
              [exc |-> Exc("RuntimeError", <<"Error during transcription", OtherMsg>>),
               value |-> TextNone,
               calls |-> <<"transcribe_audio", "recognize_google", "raise Exception">>]

\* The chat-completion service's answers to one client.chat.complete call.
ChatOutcomes ==
  {[o |-> "choices", content |-> r] : r \in Reports}
    \cup {[o |-> k, content |-> TextNone] : k \in {"raise", "none", "nochoices"}}

\* mutant: the transcription checked before the client
AnalyzeAccent_TextFirst(cl, transcription, outcome) ==
  IF ~TruthyText(transcription) \/ transcription.t # "str"
  THEN [exc |-> Exc("ValueError", <<"Transcription must be a non-empty string">>),
        value |-> TextNone, calls |-> <<"analyze_accent", "raise ValueError">>]
  ELSE IF ~cl
  THEN [exc |-> Exc("ValueError", <<"MistralAI client is not configured">>),
        value |-> TextNone, calls |-> <<"analyze_accent", "raise ValueError">>]
  ELSE IF outcome.o = "choices"
  THEN [exc |-> NoExc, value |-> outcome.content,
        calls |-> <<"analyze_accent", "chat.complete", outcome.content.v>>]
  ELSE [exc |-> Exc("RuntimeError", <<"Error generating analysis", OtherMsg>>),
        value |-> TextNone,
        calls |-> <<"analyze_accent", "chat.complete", "raise Exception">>]

\* analyze_accent(transcription) with the module-level client configured
\* (cl) or not, when the service answers `outcome`: [exc, value, calls].
AnalyzeAccent(cl, transcription, outcome) ==
  IF ~cl
  THEN [exc |-> Exc("ValueError", <<"MistralAI client is not configured">>),
        value |-> TextNone, calls |-> <<"analyze_accent", "raise ValueError">>]
  ELSE IF ~TruthyText(transcription) \/ transcription.t # "str"
  THEN [exc |-> Exc("ValueError", <<"Transcription must be a non-empty string">>),
        value |-> TextNone, calls |-> <<"analyze_accent", "raise ValueError">>]
  ELSE IF outcome.o = "raise"
  THEN [exc |-> Exc("RuntimeError", <<"Error generating analysis", OtherMsg>>),
        value |-> TextNone,
        calls |-> <<"analyze_accent", "chat.complete", "raise Exception">>]
  ELSE IF outcome.o \in {"none", "nochoices"}
  THEN \* the ValueError of line 171 is raised inside the try and caught by
       \* its except Exception clause
       [exc |-> Exc("RuntimeError",
                    <<"Error generating analysis", "Invalid or empty response from MistralAI API">>),
        value |-> TextNone,
        calls |-> <<"analyze_accent", "chat.complete",
                    IF outcome.o = "none" THEN "no response" ELSE "no choices",
                    "raise ValueError">>]
  ELSE [exc |-> NoExc, value |-> outcome.content,
        calls |-> <<"analyze_accent", "chat.complete", outcome.content.v>>]

\* ---------------------------------------------------------- the file system
TempNames == 1..NumTempNames
NoDir == 0
NoDirEntry == [exists |-> FALSE, creator |-> 0, files |-> {}]

\* mutant: a fixed, predictable directory instead of a fresh one
Mkdtemp_Predictable(f) == {1}

\* tempfile.mkdtemp(): the names it can return, a directory that does not
\* exist yet (it creates the directory with an exclusive mkdir)
Mkdtemp(f) == {d \in TempNames : ~f[d].exists}

\* the directory mkdtemp created for session s
MakeDir(f, d, s) ==
  IF f[d].exists THEN f
  ELSE [f EXCEPT ![d] = [exists |-> TRUE, creator |-> s, files |-> {}]]

\* the downloader writes `files` under outtmpl = <d>/audio.%(ext)s, replacing
\* files of the same name (it creates the directory when it is missing)
WriteFiles(f, d, files, s) ==
  LET g == MakeDir(f, d, s)
      new == {FileOf(p, s) : p \in files}
  IN [g EXCEPT ![d].files =
        {x \in @ : \A n \in new : n.name # x.name} \cup new]

\* mutant: the finally clause removes nothing
Rmtree_Skipped(f, d) == f

\* shutil.rmtree(temp_dir, ignore_errors=True)
Rmtree(f, d) == [f EXCEPT ![d] = NoDirEntry]

\* ---------------------------------------------------------------- the page
Widget(w, text) == [widget |-> w, text |-> text]

\* lines 186-187: shown on every render of the page
Banner(cl) ==
  IF cl THEN <<>>
  ELSE <<Widget("error", <<"MistralAI API key is not configured. Some functionality will be limited.">>)>>

\* lines 225-227
UiExcept(e) ==
  <<Widget("error", <<"An error occurred">> \o e.msg), Widget("exception", e.msg)>>

\* lines 205-206
UiStep1 ==
  <<Widget("success", <<"Audio extracted successfully">>),
    Widget("status", <<"Audio extraction complete">>)>>

\* mutant: the text area's label and value swapped
UiStep2_Swapped(transcription) ==
  <<Widget("text_area", <<"Transcription">>),
    Widget("success", <<"Transcription completed">>),
    Widget("status", <<"Transcription complete">>)>>

\* lines 211-213
UiStep2(transcription) ==
  <<Widget("text_area", <<transcription.v>>),
    Widget("success", <<"Transcription completed">>),
    Widget("status", <<"Transcription complete">>)>>

\* lines 221-223
UiStep3(analysis) ==
  <<Widget("markdown", <<analysis.v>>),
    Widget("success", <<"Analysis completed">>),
    Widget("status", <<"Analysis complete">>)>>

\* lines 218 and 223
UiNoClient ==
  <<Widget("error", <<"MistralAI API not configured - cannot analyze accent">>),
    Widget("status", <<"Analysis complete">>)>>

\* -------------------------------------------------------------------- state
VARIABLES
  client,         \* the module-level client is configured (line 22)
  fs,             \* the temporary directories: name -> [exists, creator, files]
  pc,             \* each session's position
  caller,         \* who called the function the session is in: "main" or "direct"
  video_url,      \* the URL entered or passed
  temp_dir,       \* stream_audio_to_memory's temp_dir
  audio_file,     \* its audio_file (the name inside temp_dir)
  audio_bytes,    \* its audio_bytes
  audio_buffer,   \* its audio_buffer, then main's
  pending,        \* the exception its except clause raised, until finally has run
  exc,            \* the exception that reached main's handler or the direct caller
  transcription,  \* main's transcription / analyze_accent's argument
  analysis,       \* main's analysis / analyze_accent's result
  ui,             \* the elements the page shows, in order
  log             \* the calls made so far, in order

vars == <<client, fs, pc, caller, video_url, temp_dir, audio_file, audio_bytes,
          audio_buffer, pending, exc, transcription, analysis, ui, log>>

Sessions == DOMAIN pc

InitOf(S) ==
  /\ client \in BOOLEAN
  /\ fs = [d \in TempNames |-> NoDirEntry]
  /\ pc = [s \in S |-> "idle"]
  /\ caller = [s \in S |-> "none"]
  /\ video_url = [s \in S |-> PyNone]
  /\ temp_dir = [s \in S |-> NoDir]
  /\ audio_file = [s \in S |-> <<>>]
  /\ audio_bytes = [s \in S |-> NoBytes]
  /\ audio_buffer = [s \in S |-> NoBuffer]
  /\ pending = [s \in S |-> NoExc]
  /\ exc = [s \in S |-> NoExc]
  /\ transcription = [s \in S |-> TextNone]
  /\ analysis = [s \in S |-> TextNone]
  /\ ui = [s \in S |-> Banner(client)]
  /\ log = [s \in S |-> <<>>]

\* one user session
Init == InitOf({1})

\* an exception leaves the function the session is in
Propagate(s, e) ==
  /\ exc' = [exc EXCEPT ![s] = e]
  /\ pc' = [pc EXCEPT ![s] = IF caller[s] = "main" THEN "main_except" ELSE "raised"]

\* an exception raised inside the try of stream_audio_to_memory
Fail(s, e) ==
  /\ pending' = [pending EXCEPT ![s] = SaHandler(e)]
  /\ pc' = [pc EXCEPT ![s] = "sa_finally"]

Logged(s, events) == log' = [log EXCEPT ![s] = @ \o events]
Shown(s, elements) == ui' = [ui EXCEPT ![s] = @ \o elements]

\* ------------------------------------------------------------------ actions
\* lines 190-198: the user submits the form; main goes on iff the URL is truthy
Submit(s) ==
  /\ pc[s] = "idle"
  /\ \E url \in FormUrls :
       /\ video_url' = [video_url EXCEPT ![s] = url]
       /\ pc' = [pc EXCEPT ![s] = IF Truthy(url) THEN "sa_check" ELSE "rendered"]
  /\ caller' = [caller EXCEPT ![s] = "main"]
  /\ UNCHANGED <<client, fs, temp_dir, audio_file, audio_bytes, audio_buffer,
                 pending, exc, transcription, analysis, ui, log>>

\* a direct call stream_audio_to_memory(url), url one of urls
CallFetchOf(s, urls) ==
  /\ pc[s] = "idle"
  /\ \E url \in urls : video_url' = [video_url EXCEPT ![s] = url]
  /\ pc' = [pc EXCEPT ![s] = "sa_check"]
  /\ caller' = [caller EXCEPT ![s] = "direct"]
  /\ UNCHANGED <<client, fs, temp_dir, audio_file, audio_bytes, audio_buffer,
                 pending, exc, transcription, analysis, ui, log>>

CallFetch(s) == CallFetchOf(s, ArgUrls)

\* lines 51-52
SaCheck(s) ==
  /\ pc[s] = "sa_check"
  /\ IF UrlRejected(video_url[s])
     THEN /\ Propagate(s, Exc("ValueError", <<"Video URL cannot be empty">>))
          /\ Logged(s, <<"stream_audio_to_memory", "raise ValueError">>)
     ELSE /\ pc' = [pc EXCEPT ![s] = "sa_mkdtemp"]
          /\ Logged(s, <<"stream_audio_to_memory">>)
          /\ UNCHANGED exc
  /\ UNCHANGED <<client, fs, caller, video_url, temp_dir, audio_file, audio_bytes,
                 audio_buffer, pending, transcription, analysis, ui>>

\* line 54, before the try: a failure of mkdtemp leaves the function as it is
SaMkdtemp(s) ==
  /\ pc[s] = "sa_mkdtemp"
  /\ \E o \in {"ok", "OSError"} :
       IF o = "ok"
       THEN \E d \in Mkdtemp(fs) :
              /\ fs' = MakeDir(fs, d, s)
              /\ temp_dir' = [temp_dir EXCEPT ![s] = d]
              /\ pc' = [pc EXCEPT ![s] = "sa_extract_info"]
              /\ Logged(s, <<"mkdtemp">>)
              /\ UNCHANGED exc
       ELSE /\ Propagate(s, Exc("OSError", <<OtherMsg>>))
            /\ Logged(s, <<"raise OSError">>)
            /\ UNCHANGED <<fs, temp_dir>>
  /\ UNCHANGED <<client, caller, video_url, audio_file, audio_bytes, audio_buffer,
                 pending, transcription, analysis, ui>>

\* lines 68-71
SaExtractInfo(s) ==
  /\ pc[s] = "sa_extract_info"
  /\ \E o \in {"info", "none", "DownloadError", "Exception"} :
       CASE o = "info" ->
              /\ pc' = [pc EXCEPT ![s] = "sa_download"]
              /\ Logged(s, <<"extract_info">>)
              /\ UNCHANGED pending
         [] o = "none" ->
              /\ Fail(s, Exc("RuntimeError", <<"Could not extract video information">>))
              /\ Logged(s, <<"extract_info", "no info", "raise RuntimeError">>)
         [] o = "DownloadError" ->
              /\ Fail(s, Exc("DownloadError", <<DownloaderMsg>>))
              /\ Logged(s, <<"extract_info", "raise DownloadError">>)
         [] OTHER ->
              /\ Fail(s, Exc("Exception", <<OtherMsg>>))
              /\ Logged(s, <<"extract_info", "raise Exception">>)
  /\ UNCHANGED <<client, fs, caller, video_url, temp_dir, audio_file, audio_bytes,
                 audio_buffer, exc, transcription, analysis, ui>>

\* line 73: the download writes into temp_dir, also when it then fails
SaDownload(s) ==
  /\ pc[s] = "sa_download"
  /\ \E o \in {"ok", "DownloadError", "Exception"}, files \in Downloads :
       /\ fs' = WriteFiles(fs, temp_dir[s], files, s)
       /\ CASE o = "ok" ->
                 /\ pc' = [pc EXCEPT ![s] = "sa_find"]
                 /\ Logged(s, <<"download">>)
                 /\ UNCHANGED pending
            [] o = "DownloadError" ->
                 /\ Fail(s, Exc("DownloadError", <<DownloaderMsg>>))
                 /\ Logged(s, <<"download", "raise DownloadError">>)
            [] OTHER ->
                 /\ Fail(s, Exc("Exception", <<OtherMsg>>))
                 /\ Logged(s, <<"download", "raise Exception">>)
  /\ UNCHANGED <<client, caller, video_url, temp_dir, audio_file, audio_bytes,
                 audio_buffer, exc, transcription, analysis, ui>>

\* lines 76-82: the first file of os.listdir(temp_dir) named audio.*
SaFind(s) ==
  /\ pc[s] = "sa_find"
  /\ LET dir == fs[temp_dir[s]]
         found == {f \in dir.files : StartsWithAudioDot(f.name)}
     IN IF ~dir.exists
        THEN /\ Fail(s, Exc("FileNotFoundError", <<OtherMsg>>))
             /\ Logged(s, <<"listdir", "raise FileNotFoundError">>)
             /\ UNCHANGED audio_file
        ELSE IF found = {}
        THEN /\ Fail(s, Exc("RuntimeError", <<"Could not find downloaded audio file">>))
             /\ Logged(s, <<"listdir", "raise RuntimeError">>)
             /\ UNCHANGED audio_file
        ELSE \E f \in found :
               /\ audio_file' = [audio_file EXCEPT ![s] = f.name]
               /\ pc' = [pc EXCEPT ![s] = "sa_read"]
               /\ Logged(s, <<"listdir">>)
               /\ UNCHANGED pending
  /\ UNCHANGED <<client, fs, caller, video_url, temp_dir, audio_bytes, audio_buffer,
                 exc, transcription, analysis, ui>>

\* lines 85-86
SaRead(s) ==
  /\ pc[s] = "sa_read"
  /\ LET found == {f \in fs[temp_dir[s]].files : f.name = audio_file[s]}
     IN IF found = {}
        THEN /\ Fail(s, Exc("FileNotFoundError", <<OtherMsg>>))
             /\ Logged(s, <<"open", "raise FileNotFoundError">>)
             /\ UNCHANGED audio_bytes
        ELSE \E f \in found :
               /\ audio_bytes' = [audio_bytes EXCEPT ![s] = DataOf(f)]
               /\ pc' = [pc EXCEPT ![s] = "sa_convert"]
               /\ Logged(s, <<"open">>)
               /\ UNCHANGED pending
  /\ UNCHANGED <<client, fs, caller, video_url, temp_dir, audio_file, audio_buffer,
                 exc, transcription, analysis, ui>>

\* lines 89-95: [exc, value, calls]
Normalize(file, bytes) ==
  LET ext == Ext(file)
  IN IF ext # "wav"
     THEN LET r == ConvertAudioFormat(bytes, ext, "wav")
          IN [exc |-> r.exc, value |-> Seek0(r.value), calls |-> r.calls]
     ELSE [exc |-> NoExc, value |-> Seek0(BytesIO(bytes)), calls |-> <<>>]

\* lines 89-96
SaConvert(s) ==
  /\ pc[s] = "sa_convert"
  /\ LET r == Normalize(audio_file[s], audio_bytes[s])
     IN /\ Logged(s, r.calls)
        /\ IF IsExc(r.exc)
           THEN Fail(s, r.exc) /\ UNCHANGED audio_buffer
           ELSE /\ audio_buffer' = [audio_buffer EXCEPT ![s] = r.value]
                /\ pc' = [pc EXCEPT ![s] = "sa_finally"]
                /\ UNCHANGED pending
  /\ UNCHANGED <<client, fs, caller, video_url, temp_dir, audio_file, audio_bytes,
                 exc, transcription, analysis, ui>>

\* lines 102-103, then the return or the raise
SaFinally(s) ==
  /\ pc[s] = "sa_finally"
  /\ fs' = Rmtree(fs, temp_dir[s])
  /\ Logged(s, <<"rmtree">>)
  /\ IF IsExc(pending[s])
     THEN Propagate(s, pending[s])
     ELSE /\ pc' = [pc EXCEPT ![s] = IF caller[s] = "main" THEN "main_step1" ELSE "returned"]
          /\ UNCHANGED exc
  /\ UNCHANGED <<client, caller, video_url, temp_dir, audio_file, audio_bytes,
                 audio_buffer, pending, transcription, analysis, ui>>

\* lines 203-206
MainStep1(s) ==
  /\ pc[s] = "main_step1"
  /\ IF audio_buffer[s].nbytes = 0
     THEN /\ exc' = [exc EXCEPT ![s] = Exc("RuntimeError", <<"No audio data was extracted">>)]
          /\ pc' = [pc EXCEPT ![s] = "main_except"]
          /\ Logged(s, <<"raise RuntimeError">>)
          /\ UNCHANGED ui
     ELSE /\ Shown(s, UiStep1)
          /\ pc' = [pc EXCEPT ![s] = "main_step2"]
          /\ UNCHANGED <<exc, log>>
  /\ UNCHANGED <<client, fs, caller, video_url, temp_dir, audio_file, audio_bytes,
                 audio_buffer, pending, transcription, analysis>>

\* lines 209-213
MainStep2(s) ==
  /\ pc[s] = "main_step2"
  /\ \E o \in RecognitionOutcomes :
       LET r == TranscribeAudio(audio_buffer[s], o)
       IN /\ Logged(s, r.calls)
          /\ IF IsExc(r.exc)
             THEN /\ exc' = [exc EXCEPT ![s] = r.exc]
                  /\ pc' = [pc EXCEPT ![s] = "main_except"]
                  /\ UNCHANGED <<transcription, ui>>
             ELSE /\ transcription' = [transcription EXCEPT ![s] = r.value]
                  /\ Shown(s, UiStep2(r.value))
                  /\ pc' = [pc EXCEPT ![s] = "main_step3"]
                  /\ UNCHANGED exc
  /\ UNCHANGED <<client, fs, caller, video_url, temp_dir, audio_file, audio_bytes,
                 audio_buffer, pending, analysis>>

\* lines 216-223
MainStep3(s) ==
  /\ pc[s] = "main_step3"
  /\ IF ~client
     THEN /\ Shown(s, UiNoClient)
          /\ pc' = [pc EXCEPT ![s] = "done"]
          /\ UNCHANGED <<exc, analysis, log>>
     ELSE \E o \in ChatOutcomes :
            LET r == AnalyzeAccent(client, transcription[s], o)
            IN /\ Logged(s, r.calls)
               /\ IF IsExc(r.exc)
                  THEN /\ exc' = [exc EXCEPT ![s] = r.exc]
                       /\ pc' = [pc EXCEPT ![s] = "main_except"]
                       /\ UNCHANGED <<analysis, ui>>
                  ELSE /\ analysis' = [analysis EXCEPT ![s] = r.value]
                       /\ Shown(s, UiStep3(r.value))
                       /\ pc' = [pc EXCEPT ![s] = "done"]
                       /\ UNCHANGED exc
  /\ UNCHANGED <<client, fs, caller, video_url, temp_dir, audio_file, audio_bytes,
                 audio_buffer, pending, transcription>>

\* lines 225-227
MainExcept(s) ==
  /\ pc[s] = "main_except"
  /\ Shown(s, UiExcept(exc[s]))
  /\ pc' = [pc EXCEPT ![s] = "failed"]
  /\ UNCHANGED <<client, fs, caller, video_url, temp_dir, audio_file, audio_bytes,
                 audio_buffer, pending, exc, transcription, analysis, log>>

\* a direct call analyze_accent(text)
CallAnalyze(s) ==
  /\ pc[s] = "idle"
  /\ \E text \in ArgTexts, o \in ChatOutcomes :
       LET r == AnalyzeAccent(client, text, o)
       IN /\ transcription' = [transcription EXCEPT ![s] = text]
          /\ analysis' = [analysis EXCEPT ![s] = r.value]
          /\ exc' = [exc EXCEPT ![s] = r.exc]
          /\ pc' = [pc EXCEPT ![s] = IF IsExc(r.exc) THEN "raised" ELSE "returned"]
          /\ Logged(s, r.calls)
  /\ caller' = [caller EXCEPT ![s] = "direct"]
  /\ UNCHANGED <<client, fs, video_url, temp_dir, audio_file, audio_bytes,
                 audio_buffer, pending, ui>>

Ended == {"rendered", "done", "failed", "returned", "raised"}

\* the next interaction reruns the script from the top; a caller calls again
Rerun(s) ==
  /\ pc[s] \in Ended
  /\ pc' = [pc EXCEPT ![s] = "idle"]
  /\ caller' = [caller EXCEPT ![s] = "none"]
  /\ video_url' = [video_url EXCEPT ![s] = PyNone]
  /\ temp_dir' = [temp_dir EXCEPT ![s] = NoDir]
  /\ audio_file' = [audio_file EXCEPT ![s] = <<>>]
  /\ audio_bytes' = [audio_bytes EXCEPT ![s] = NoBytes]
  /\ audio_buffer' = [audio_buffer EXCEPT ![s] = NoBuffer]
  /\ pending' = [pending EXCEPT ![s] = NoExc]
  /\ exc' = [exc EXCEPT ![s] = NoExc]
  /\ transcription' = [transcription EXCEPT ![s] = TextNone]
  /\ analysis' = [analysis EXCEPT ![s] = TextNone]
  /\ ui' = [ui EXCEPT ![s] = Banner(client)]
  /\ log' = [log EXCEPT ![s] = <<>>]
  /\ UNCHANGED <<client, fs>>

Next ==
  \/ \E s \in Sessions : Submit(s)
  \/ \E s \in Sessions : CallFetch(s)
  \/ \E s \in Sessions : CallAnalyze(s)
  \/ \E s \in Sessions : SaCheck(s)
  \/ \E s \in Sessions : SaMkdtemp(s)
  \/ \E s \in Sessions : SaExtractInfo(s)
  \/ \E s \in Sessions : SaDownload(s)
  \/ \E s \in Sessions : SaFind(s)
  \/ \E s \in Sessions : SaRead(s)
  \/ \E s \in Sessions : SaConvert(s)
  \/ \E s \in Sessions : SaFinally(s)
  \/ \E s \in Sessions : MainStep1(s)
  \/ \E s \in Sessions : MainStep2(s)
  \/ \E s \in Sessions : MainStep3(s)
  \/ \E s \in Sessions : MainExcept(s)
  \/ \E s \in Sessions : Rerun(s)

Spec == Init /\ [][Next]_vars

\* Two users of the hosted page at once, each run on its own thread and its
\* own URL, in the step that uses the temporary storage.
Users == {1, 2}
UrlOf(s) == PyStr([i \in 1..s |-> "x"])
StartRun(s) == CallFetchOf(s, {UrlOf(s)})

InitUsers == InitOf(Users)

NextUsers ==
  \/ \E s \in Sessions : StartRun(s)
  \/ \E s \in Sessions : SaCheck(s)
  \/ \E s \in Sessions : SaMkdtemp(s)
  \/ \E s \in Sessions : SaExtractInfo(s)
  \/ \E s \in Sessions : SaDownload(s)
  \/ \E s \in Sessions : SaFind(s)
  \/ \E s \in Sessions : SaRead(s)
  \/ \E s \in Sessions : SaConvert(s)
  \/ \E s \in Sessions : SaFinally(s)
  \/ \E s \in Sessions : Rerun(s)

SpecUsers == InitUsers /\ [][NextUsers]_vars

\* ================================================================== claims
\* The failure kinds of the specification's taxonomy, read off what a caller
\* of the code can tell apart: the exception's class and the outermost part
\* of its message.
Kind(e) ==
  LET m == IF e.msg = <<>> THEN "" ELSE Head(e.msg)
  IN CASE e.type = "ValueError" /\ m = "Video URL cannot be empty" -> "InvalidInput"
       [] e.type = "ValueError" /\ m = "Transcription must be a non-empty string" -> "InvalidInput"
       [] e.type = "ValueError" /\ m = "MistralAI client is not configured" -> "NotConfigured"
       [] e.type = "ValueError" /\ m = "Invalid or empty response from MistralAI API" -> "InvalidResponse"
       [] e.type = "RuntimeError" /\ m = "Failed to extract audio" -> "FetchError"
       [] e.type = "RuntimeError" /\ m = "Audio conversion failed" -> "ConversionError"
       [] e.type = "RuntimeError" /\ m = "Speech recognition could not understand audio" -> "UnintelligibleAudio"
       [] e.type = "RuntimeError" /\ m = "Could not request results from speech recognition service" -> "ServiceUnavailable"
       [] e.type = "RuntimeError" /\ m = "Error generating analysis" -> "ServiceUnavailable"
       [] e.type = "None" -> "None"
       [] OTHER -> "UnexpectedError"

Has(seq, x) == \E i \in DOMAIN seq : seq[i] = x
Count(seq, x) == Cardinality({i \in DOMAIN seq : seq[i] = x})
IndexOf(seq, x) == CHOOSE i \in DOMAIN seq : seq[i] = x

RaiseEvents ==
  {"raise ValueError", "raise RuntimeError", "raise OSError", "raise DownloadError",
   "raise Exception", "raise FileNotFoundError", "raise CouldntDecodeError",
   "raise UnknownValueError", "raise RequestError"}
HasRaise(seq) == \E i \in DOMAIN seq : seq[i] \in RaiseEvents

\* the positions inside stream_audio_to_memory's try statement
InFetch == {"sa_extract_info", "sa_download", "sa_find", "sa_read", "sa_convert", "sa_finally"}
\* the positions after the function a session called has raised
Raised == {"raised", "main_except", "failed"}

\* the temporary directories session s created that still exist
OwnDirs(s) == {d \in TempNames : fs[d].exists /\ fs[d].creator = s}

StageCalls == {"download", "convert_audio_format", "transcribe_audio", "analyze_accent"}
IsStageCall(ev) == ev \in StageCalls
\* the collaborators a later stage would reach
NoCallOf(seq, calls) == \A i \in DOMAIN seq : seq[i] \notin calls

\* C2: once a stage of a run of main has failed, the run goes to Failed with
\* the failure's kind and no later stage is invoked; a downloader error in
\* the fetch gives Failed(FetchError) with no transcription and no analysis
\* call and the directory removed; "not understood" from the recognition
\* service gives Failed(UnintelligibleAudio) with no analysis call.
C2_FailureSkipsLaterStages ==
  \A s \in Sessions :
    caller[s] = "main" =>
      /\ \A i, j \in DOMAIN log[s] :
           (i < j /\ log[s][i] \in RaiseEvents) =>
             log[s][j] \notin (StageCalls \cup {"extract_info", "recognize_google", "chat.complete"})
      /\ HasRaise(log[s]) => pc[s] \in {"sa_finally", "main_except", "failed"}
      /\ pc[s] \in {"main_except", "failed"} =>
           /\ IsExc(exc[s])
           /\ HasRaise(log[s])
           /\ analysis[s] = TextNone
           /\ OwnDirs(s) = {}
      /\ Has(log[s], "raise DownloadError") =>
           /\ NoCallOf(log[s], {"transcribe_audio", "recognize_google", "analyze_accent", "chat.complete"})
           /\ pc[s] \in {"main_except", "failed"} =>
                /\ Kind(exc[s]) = "FetchError"
                /\ Count(log[s], "rmtree") = 1
      /\ Has(log[s], "raise UnknownValueError") =>
           /\ pc[s] \in {"main_except", "failed"}
           /\ Kind(exc[s]) = "UnintelligibleAudio"
           /\ NoCallOf(log[s], {"analyze_accent", "chat.complete"})

\* a run that ended Failed(UnintelligibleAudio) after a successful fetch
C2_Witness ==
  \E s \in Sessions :
    /\ caller[s] = "main"
    /\ pc[s] = "failed"
    /\ Has(log[s], "raise UnknownValueError")
    /\ Kind(exc[s]) = "UnintelligibleAudio"

\* the result panels of the page: the texts it was handed
Results(elements) ==
  SelectSeq(elements, LAMBDA e : e.widget \in {"text_area", "markdown", "error", "exception"})

\* every stage of the run was invoked and none failed
AllStagesSucceeded(s) ==
  /\ caller[s] = "main"
  /\ Has(log[s], "analyze_accent")
  /\ ~HasRaise(log[s])

\* C3: a run of main in which every stage succeeds calls the stages in the
\* order fetch, normalize, transcribe, analyze, each with the previous
\* stage's output in hand, ends in Done, and hands the page exactly the
\* transcript the recognition service returned and then the report the
\* completion held, unmodified.
C3_SuccessfulRunInOrder ==
  \A s \in Sessions :
    /\ (caller[s] = "main" /\ Has(log[s], "convert_audio_format")) =>
         /\ audio_bytes[s] # NoBytes
         /\ Has(log[s], "download")
    /\ (caller[s] = "main" /\ Has(log[s], "transcribe_audio")) =>
         /\ audio_buffer[s] # NoBuffer
         /\ Has(log[s], "rmtree")
    /\ (caller[s] = "main" /\ Has(log[s], "analyze_accent")) =>
         /\ transcription[s] # TextNone
         /\ Has(log[s], "recognize_google")
    /\ AllStagesSucceeded(s) =>
         /\ pc[s] = "done"
         /\ SelectSeq(log[s], IsStageCall) \in
              { <<"download", "transcribe_audio", "analyze_accent">>,
                <<"download", "convert_audio_format", "transcribe_audio", "analyze_accent">> }
         /\ Results(ui[s]) =
              << Widget("text_area", <<log[s][IndexOf(log[s], "recognize_google") + 1]>>),
                 Widget("markdown", <<log[s][IndexOf(log[s], "chat.complete") + 1]>>) >>

\* a successful run in which the conversion really ran
C3_Witness ==
  \E s \in Sessions :
    /\ AllStagesSucceeded(s)
    /\ pc[s] = "done"
    /\ Has(log[s], "convert_audio_format")
    /\ Has(log[s], "hello world")
    /\ Has(log[s], "### Accent: American")

\* the URL is empty, None, or whitespace only
IsBlank(url) == url.t # "str" \/ \A i \in DOMAIN url.v : url.v[i] \in Whitespace

\* C4: stream_audio_to_memory called with an empty or whitespace-only URL
\* fails with InvalidInput, before any directory is made and before any
\* downloader call.
C4_BlankUrlRejectedFirst ==
  \A s \in Sessions :
    (Has(log[s], "stream_audio_to_memory") /\ IsBlank(video_url[s])) =>
      /\ pc[s] \in Raised
      /\ Kind(exc[s]) = "InvalidInput"
      /\ NoCallOf(log[s], {"mkdtemp", "extract_info", "download"})
      /\ OwnDirs(s) = {}

\* a whitespace-only URL was passed and rejected
C4_Witness ==
  \E s \in Sessions :
    /\ Has(log[s], "stream_audio_to_memory")
    /\ video_url[s].t = "str"
    /\ Len(video_url[s].v) > 0
    /\ IsBlank(video_url[s])
    /\ Kind(exc[s]) = "InvalidInput"

\* C5 as stated: analyze_accent with empty text fails with InvalidInput, with
\* no client fails with NotConfigured, both before any chat-completion
\* request.
C5_Original ==
  \A s \in Sessions :
    Has(log[s], "analyze_accent") =>
      /\ transcription[s] = Text("") =>
           Kind(exc[s]) = "InvalidInput" /\ ~Has(log[s], "chat.complete")
      /\ ~client =>
           Kind(exc[s]) = "NotConfigured" /\ ~Has(log[s], "chat.complete")

\* C5 as amended: with no client analyze_accent fails with NotConfigured
\* whatever the text; with a client and empty text it fails with
\* InvalidInput; both before any chat-completion request, and the two
\* failures differ in their message, hence in kind.
C5_PreconditionsBeforeRequest ==
  \A s \in Sessions :
    Has(log[s], "analyze_accent") =>
      /\ (client /\ transcription[s] = Text("")) =>
           /\ Kind(exc[s]) = "InvalidInput"
           /\ ~Has(log[s], "chat.complete")
      /\ ~client =>
           /\ Kind(exc[s]) = "NotConfigured"
           /\ ~Has(log[s], "chat.complete")
      /\ (~client \/ transcription[s] = Text("")) =>
           /\ pc[s] \in Raised
           /\ analysis[s] = TextNone

\* a direct call with empty text and no client
C5_Witness ==
  \E s \in Sessions :
    /\ caller[s] = "direct"
    /\ Has(log[s], "analyze_accent")
    /\ transcription[s] = Text("")
    /\ ~client
    /\ Kind(exc[s]) = "NotConfigured"

\* C6: two runs at once never share a temporary directory: while a run is
\* inside stream_audio_to_memory's try its directory exists, was created by
\* it, is no other run's directory and holds only files its own download
\* wrote, and the bytes it has read are bytes it downloaded; so no run
\* reads, overwrites or removes the other's file.
C6_RunsDoNotShareStorage ==
  /\ \A s \in Sessions :
       /\ pc[s] \in InFetch =>
            /\ temp_dir[s] # NoDir
            /\ fs[temp_dir[s]].exists
            /\ fs[temp_dir[s]].creator = s
            /\ \A f \in fs[temp_dir[s]].files : f.by = s
       /\ audio_bytes[s] # NoBytes => audio_bytes[s].by = s
       /\ audio_buffer[s] # NoBuffer => audio_buffer[s].by = s
  /\ \A s, t \in Sessions :
       (s # t /\ pc[s] \in InFetch /\ pc[t] \in InFetch) => temp_dir[s] # temp_dir[t]
  /\ \A d \in TempNames : fs[d].exists => pc[fs[d].creator] \in InFetch /\ temp_dir[fs[d].creator] = d

\* both runs have downloaded a file of the same name and not yet cleaned up
C6_Witness ==
  \E s, t \in Sessions :
    /\ s # t
    /\ pc[s] = "sa_read" /\ pc[t] = "sa_finally"
    /\ audio_file[s] = audio_file[t]
    /\ fs[temp_dir[s]].files # {} /\ fs[temp_dir[t]].files # {}
    /\ audio_buffer[t] # NoBuffer

\* C7 as stated: a completion with no choices (or no response) makes
\* analyze_accent fail with kind InvalidResponse, not with the kind of a
\* transport failure.
C7_InvalidResponseKind ==
  \A s \in Sessions :
    (Has(log[s], "no choices") \/ Has(log[s], "no response")) =>
      /\ pc[s] \in Raised
      /\ Kind(exc[s]) = "InvalidResponse"
      /\ Kind(exc[s]) # "ServiceUnavailable"

\* C8 as stated: a failed conversion reaches the caller of
\* stream_audio_to_memory as ConversionError.
C8_ConversionErrorKind ==
  \A s \in Sessions :
    (Has(log[s], "raise CouldntDecodeError") /\ pc[s] \in Raised) =>
      /\ Kind(exc[s]) = "ConversionError"
      /\ Has(exc[s].msg, DecoderMsg)

\* WAV, one channel, 16 kHz, positioned at its start
Canonical(buf) ==
  /\ buf.container = "wav"
  /\ buf.channels = CHANNELS
  /\ buf.rate = SAMPLE_RATE
  /\ buf.pos = 0

\* C9 as stated: every buffer stream_audio_to_memory returns is canonical.
C9_ReturnedBufferCanonical ==
  \A s \in Sessions :
    (pc[s] \in {"returned", "main_step1", "main_step2"} /\ Has(log[s], "stream_audio_to_memory")) =>
      Canonical(audio_buffer[s])

HasWidget(elements, w) == \E i \in DOMAIN elements : elements[i].widget = w

\* C10 as stated: every submit ends with the report or a failure message on
\* the page, and no run without an analysis is reported as a completed
\* analysis.
C10_SubmitAlwaysAnswered ==
  \A s \in Sessions :
    (caller[s] = "main" /\ pc[s] \in Ended) =>
      /\ HasWidget(ui[s], "markdown") \/ HasWidget(ui[s], "error")
      /\ analysis[s] = TextNone =>
           ~Has(ui[s], Widget("status", <<"Analysis complete">>))

====
